---- MODULE Spec2Model ----
(***************************************************************************)
(* Emergency Response Optimization System: the dispatch endpoint           *)
(* (backend.py), the database loader (init_db.py), the heuristic           *)
(* rebalancer (optimize_allocation.py) and the AI-driven rebalancer        *)
(* (optimize_allocation_ai.py), as one state machine over the vehicles     *)
(* table, the vehicles.csv fleet file and the rebalancers' output.         *)
(***************************************************************************)
EXTENDS Integers, Sequences, FiniteSets, TLC

VARIABLES
    vehicles,      \* the vehicles table of emergency.db, rows in rowid order
    pc,            \* per request worker: "ready", "selected" (between SELECT and UPDATE)
                   \* or "committed" (between the commit and the response)
    req,           \* per worker: the last request received (normalised type, location as sent)
    best,          \* per worker: the id of best_unit, the row picked from the SELECT's snapshot
    resp,          \* per worker: the last HTTP response returned
    csvVehicles,   \* the rows of vehicles.csv (strings as written in the file)
    stations,      \* the rows of stations.csv
    factors,       \* the rows of factors.csv
    optimized,     \* the rows of vehicles_optimized.csv (<<>>: not written yet)
    factor,        \* the scenario main chose for the last heuristic run
    choice,        \* one call of choose_factor_scenario: its scenario_id and how it ended
    ai             \* the AI rebalancer's run: where it is, and the attempt of its retry loop

vars ==
    <<vehicles, pc, req, best, resp, csvVehicles, stations, factors, optimized, factor, choice, ai>>

-----------------------------------------------------------------------------
(* Bounds *)

\* Number of units in the fleet the dispatcher works on.
MaxUnits == 3

\* Concurrent request handlers (Flask serves requests in threads, each with
\* its own sqlite connection).
Workers == {"w1", "w2"}

-----------------------------------------------------------------------------
(* Strings *)

\* str.strip().lower() on the strings that occur in the model.
StripLower(s) ==
    CASE s = "Ambulance "  -> "ambulance"
      [] s = " Police"     -> "police"
      [] s = "FIRE"        -> "fire"
      [] s = " Helicopter" -> "helicopter"
      [] s = "Busy "       -> "busy"
      [] s = "Maintenance" -> "maintenance"
      [] s = " North"      -> "north"
      [] s = "NORTH"       -> "north"
      [] s = "SOUTH"       -> "south"
      [] OTHER             -> s

\* str.strip()
Strip(s) ==
    CASE s = " S1 " -> "S1"
      [] OTHER      -> s

Cyc(seq, i) == seq[((i - 1) % Len(seq)) + 1]

-----------------------------------------------------------------------------
(* Distance *)

\* distance_km on the model's coordinates (whole degrees, latitude 0..2,
\* longitude 0..1), in metres (R * c * 1000 rounded):
\* the haversine formula evaluated with R = 6371.0.  Rounding to metres keeps
\* the order and the exact ties of the floating-point values on this grid.
HaversineM ==
    <<0,0,0,0>> :> 0 @@ <<0,0,0,1>> :> 111195 @@ <<0,0,1,0>> :> 111195 @@ <<0,0,1,1>> :> 157249 @@ <<0,0,2,0>> :> 222390 @@ <<0,0,2,1>> :> 248629 @@
    <<0,1,0,0>> :> 111195 @@ <<0,1,0,1>> :> 0 @@ <<0,1,1,0>> :> 157249 @@ <<0,1,1,1>> :> 111195 @@ <<0,1,2,0>> :> 248629 @@ <<0,1,2,1>> :> 222390 @@
    <<1,0,0,0>> :> 111195 @@ <<1,0,0,1>> :> 157249 @@ <<1,0,1,0>> :> 0 @@ <<1,0,1,1>> :> 111178 @@ <<1,0,2,0>> :> 111195 @@ <<1,0,2,1>> :> 157225 @@
    <<1,1,0,0>> :> 157249 @@ <<1,1,0,1>> :> 111195 @@ <<1,1,1,0>> :> 111178 @@ <<1,1,1,1>> :> 0 @@ <<1,1,2,0>> :> 157225 @@ <<1,1,2,1>> :> 111195 @@
    <<2,0,0,0>> :> 222390 @@ <<2,0,0,1>> :> 248629 @@ <<2,0,1,0>> :> 111195 @@ <<2,0,1,1>> :> 157225 @@ <<2,0,2,0>> :> 0 @@ <<2,0,2,1>> :> 111127 @@
    <<2,1,0,0>> :> 248629 @@ <<2,1,0,1>> :> 222390 @@ <<2,1,1,0>> :> 157225 @@ <<2,1,1,1>> :> 111195 @@ <<2,1,2,0>> :> 111127 @@ <<2,1,2,1>> :> 0

distance_km(lat1, lon1, lat2, lon2) == HaversineM[<<lat1, lon1, lat2, lon2>>]

\* float('inf'), the initial min_dist: larger than every distance.
Inf == 1000000000

-----------------------------------------------------------------------------
(* The fleet file and the database loader *)

\* Vehicle ids, by position in the fleet file.
IdOf == <<"V1", "V2", "V3", "V4", "V5", "V6", "V7", "V8", "V9", "V10">>

\* A fleet file of n rows: the type, position, status and station_id columns
\* repeat the given patterns.
Fleet(n, tp, pp, sp, dp) ==
    [i \in 1..n |->
        [id         |-> IdOf[i],
         type       |-> Cyc(tp, i),
         lat        |-> Cyc(pp, i)[1],
         lon        |-> Cyc(pp, i)[2],
         status     |-> Cyc(sp, i),
         station_id |-> Cyc(dp, i)]]

\* init_db: one table row per file row, type and status normalised, a status
\* other than available/busy coerced to available.
init_db_row(row) ==
    LET v_status == StripLower(row.status)
    IN  [id         |-> Strip(row.id),
         type       |-> StripLower(row.type),
         lat        |-> row.lat,
         lon        |-> row.lon,
         status     |-> IF v_status \notin {"available", "busy"} THEN "available" ELSE v_status,
         station_id |-> Strip(row.station_id)]

init_db(csv) == [i \in 1..Len(csv) |-> init_db_row(csv[i])]

-----------------------------------------------------------------------------
(* The dispatch endpoint: POST /api/request *)

\* JSON values of the "location" array: a number, a non-numeric string, null.
Num(v) == [kind |-> "number", val |-> v]
Txt == [kind |-> "text", val |-> 0]
Nul == [kind |-> "null", val |-> 0]

\* float(x) succeeds (neither TypeError nor ValueError)
FloatOK(x) == x.kind = "number"

\* The "type" strings and "location" values requests carry.
RequestTypes == {"Ambulance ", " Helicopter"}
RequestLocations ==
    { <<Num(1)>>, <<Txt, Nul>>, <<Num(1), Num(0)>> }

NoRow == [id |-> "", type |-> "", lat |-> 0, lon |-> 0, status |-> "", station_id |-> ""]
NoRequest == [type |-> "", loc |-> <<>>]

\* A response: the status code, the "error" of an error body, the "unit" of an
\* assignment.
Response(code, error, unit) == [code |-> code, error |-> error, unit |-> unit]
NoResponse == Response(0, "", "")

\* (a variant of SelectAvailable without the type condition)
SelectAnyAvailable(db, req_type) == SelectSeq(db, LAMBDA v : v.status = "available")

\* SELECT * FROM vehicles WHERE type = ? AND status = 'available'
SelectAvailable(db, req_type) ==
    SelectSeq(db, LAMBDA v : v.type = req_type /\ v.status = "available")

\* (a variant of Closer that lets a later candidate at the same distance win)
CloserOrEqual(d, min_dist) == d <= min_dist

\* the test of the selection loop: d < min_dist
Closer(d, min_dist) == d < min_dist

\* The selection loop over the candidates, from candidate i on.
RECURSIVE ClosestLoop(_, _, _, _, _, _)
ClosestLoop(candidates, lat, lon, i, best_unit, min_dist) ==
    IF i > Len(candidates) THEN best_unit
    ELSE LET v == candidates[i]
             d == distance_km(lat, lon, v.lat, v.lon)
         IN  IF Closer(d, min_dist)
             THEN ClosestLoop(candidates, lat, lon, i + 1, v, d)
             ELSE ClosestLoop(candidates, lat, lon, i + 1, best_unit, min_dist)

Closest(candidates, lat, lon) == ClosestLoop(candidates, lat, lon, 1, NoRow, Inf)

\* UPDATE vehicles SET status = 'busy' WHERE id = ?
MarkBusy(db, id) ==
    [i \in DOMAIN db |-> IF db[i].id = id THEN [db[i] EXCEPT !.status = "busy"] ELSE db[i]]

\* request_unit up to and including the selection: parse and check the
\* request, read the candidates, pick the closest.  Every early return ends
\* the request here; otherwise the handler goes on to the UPDATE.
RequestSelect(w) ==
    /\ pc[w] = "ready"
    /\ \E rawType \in RequestTypes, loc \in RequestLocations :
        LET req_type   == StripLower(rawType)
            lat        == loc[1].val
            lon        == loc[2].val
            candidates == SelectAvailable(vehicles, req_type)
            best_unit  == Closest(candidates, lat, lon)
        IN  /\ req' = [req EXCEPT ![w] = [type |-> req_type, loc |-> loc]]
            /\ IF loc = <<>> \/ Len(loc) # 2
               THEN /\ resp' = [resp EXCEPT ![w] = Response(400, "Invalid location", "")]
                    /\ UNCHANGED <<pc, best>>
               ELSE IF ~(FloatOK(loc[1]) /\ FloatOK(loc[2]))
               THEN /\ resp' = [resp EXCEPT ![w] =
                                   Response(400, "Location must be numeric [lat, lon]", "")]
                    /\ UNCHANGED <<pc, best>>
               ELSE IF candidates = <<>>
               THEN /\ resp' = [resp EXCEPT ![w] = Response(400, "No available unit", "")]
                    /\ UNCHANGED <<pc, best>>
               ELSE IF best_unit = NoRow
               THEN /\ resp' = [resp EXCEPT ![w] =
                                   Response(500, "Error finding closest unit", "")]
                    /\ UNCHANGED <<pc, best>>
               ELSE /\ pc' = [pc EXCEPT ![w] = "selected"]
                    /\ best' = [best EXCEPT ![w] = best_unit.id]
                    /\ resp' = [resp EXCEPT ![w] = NoResponse]
    /\ UNCHANGED <<vehicles, csvVehicles, stations, factors, optimized, factor, ai, choice>>

\* request_unit, the UPDATE and its commit: mark best_unit busy.
RequestCommit(w) ==
    /\ pc[w] = "selected"
    /\ vehicles' = MarkBusy(vehicles, best[w])
    /\ pc' = [pc EXCEPT ![w] = "committed"]
    /\ UNCHANGED <<req, best, resp, csvVehicles, stations, factors, optimized, factor, ai,
                   choice>>

\* request_unit after the commit: close the connection, answer with best_unit.
RequestReturn(w) ==
    /\ pc[w] = "committed"
    /\ resp' = [resp EXCEPT ![w] = Response(200, "", best[w])]
    /\ pc' = [pc EXCEPT ![w] = "ready"]
    /\ UNCHANGED <<vehicles, req, best, csvVehicles, stations, factors, optimized, factor, ai,
                   choice>>

\* GET /api/vehicles: every row of the table as a dict, in table order.
get_vehicles(db) ==
    [i \in 1..Len(db) |->
        [id |-> db[i].id, type |-> db[i].type, lat |-> db[i].lat, lon |-> db[i].lon,
         status |-> db[i].status, station_id |-> db[i].station_id]]

\* (a variant of ResetAll that also sends every unit back to no station)
ResetAllAndUnassign(db) ==
    [i \in DOMAIN db |-> [db[i] EXCEPT !.status = "available", !.station_id = ""]]

\* POST /api/reset: UPDATE vehicles SET status = 'available'
ResetAll(db) == [i \in DOMAIN db |-> [db[i] EXCEPT !.status = "available"]]

reset_vehicles ==
    /\ vehicles' = ResetAll(vehicles)
    /\ UNCHANGED <<pc, req, best, resp, csvVehicles, stations, factors, optimized, factor, ai,
                   choice>>

-----------------------------------------------------------------------------
(* The heuristic rebalancer: optimize_allocation.py *)

\* Cells of stations.csv and factors.csv that the code parses as numbers:
\* an integer text ("3"), a decimal text given in halves ("1.5" is DecCell(3)),
\* or a text that is no number ("" or "high").
IntCell(n) == [kind |-> "int", val |-> n]
DecCell(h) == [kind |-> "dec", val |-> h]
TxtCell == [kind |-> "text", val |-> 0]

\* int(x) succeeds, and its value
IntParses(c) == c.kind = "int"
\* float(x) succeeds, and its value in halves
FloatParses(c) == c.kind \in {"int", "dec"}
FloatHalves(c) == IF c.kind = "int" THEN 2 * c.val ELSE c.val

\* safe_float / the try-except around float(expected_call_volume): 0.0 on failure
safe_float(c) == IF FloatParses(c) THEN FloatHalves(c) ELSE 0

\* (a variant of RoundHalves that rounds a tie upwards)
RoundHalfUp(h) == (h + 1) \div 2

\* int(round(x)) for x = h / 2: Python rounds a tie to the even neighbour.
RoundHalves(h) ==
    LET k == h \div 2
    IN  IF h % 2 = 0 THEN k
        ELSE IF k % 2 = 0 THEN k ELSE k + 1

\* a row of factors.csv
Factor(id, region, volume) ==
    [id |-> id, region |-> region, expected_call_volume |-> volume]
\* no scenario chosen yet
NoFactor == Factor("", "", TxtCell)

\* sys.argv has no scenario id
NoneArg == "<none>"

\* (a variant of MaxByVolume that keeps the last row with the largest key)
RECURSIVE MaxByVolumeLast(_, _, _)
MaxByVolumeLast(rows, i, m) ==
    IF i > Len(rows) THEN m
    ELSE IF safe_float(rows[i].expected_call_volume) >= safe_float(m.expected_call_volume)
         THEN MaxByVolumeLast(rows, i + 1, rows[i])
         ELSE MaxByVolumeLast(rows, i + 1, m)

\* max(factors, key = volume): the first row with the largest key
RECURSIVE MaxByVolume(_, _, _)
MaxByVolume(rows, i, m) ==
    IF i > Len(rows) THEN m
    ELSE IF safe_float(rows[i].expected_call_volume) > safe_float(m.expected_call_volume)
         THEN MaxByVolume(rows, i + 1, rows[i])
         ELSE MaxByVolume(rows, i + 1, m)

RECURSIVE FirstWithId(_, _, _)
FirstWithId(rows, scenario_id, i) ==
    IF i > Len(rows) THEN 0
    ELSE IF rows[i].id = scenario_id THEN i
    ELSE FirstWithId(rows, scenario_id, i + 1)

\* choose_factor_scenario (factors non-empty)
choose_factor_scenario(rows, scenario_id) ==
    IF scenario_id # NoneArg /\ FirstWithId(rows, scenario_id, 1) # 0
    THEN rows[FirstWithId(rows, scenario_id, 1)]
    ELSE MaxByVolume(rows, 2, rows[1])

\* (a variant of Capacity that reads the fire column for every type)
CapacityFire(s, vehicle_type) == s.capacity_fire

\* the capacity column of a vehicle type
Capacity(s, vehicle_type) ==
    IF vehicle_type = "ambulance" THEN s.capacity_ambulance
    ELSE IF vehicle_type = "police" THEN s.capacity_police
    ELSE s.capacity_fire

\* the weight compute_station_weights gives one station (0: left out)
StationWeight(s, scenario, vehicle_type) ==
    LET region_hot      == StripLower(scenario.region)
        expected_volume == safe_float(scenario.expected_call_volume)
        hot_multiplier  == 2 + expected_volume       \* in halves
        base_multiplier == 2                         \* in halves
        region          == StripLower(s.region)
        c               == Capacity(s, vehicle_type)
        cap             == IF IntParses(c) THEN c.val ELSE 0
        w               == IF region = region_hot
                           THEN RoundHalves(cap * hot_multiplier)
                           ELSE RoundHalves(cap * base_multiplier)
    IN  IF cap <= 0 THEN 0
        ELSE IF w < 0 THEN 0 ELSE w

\* weights[sid] = w on a dict kept as a sequence of entries in insertion order
DictSet(d, sid, w) ==
    IF \E i \in DOMAIN d : d[i].sid = sid
    THEN [i \in DOMAIN d |-> IF d[i].sid = sid THEN [sid |-> sid, w |-> w] ELSE d[i]]
    ELSE Append(d, [sid |-> sid, w |-> w])

\* compute_station_weights: the dict station id -> weight, positive weights only
RECURSIVE WeightsFrom(_, _, _, _, _)
WeightsFrom(sts, scenario, vehicle_type, i, weights) ==
    IF i > Len(sts) THEN weights
    ELSE LET w == StationWeight(sts[i], scenario, vehicle_type)
         IN  IF w > 0
             THEN WeightsFrom(sts, scenario, vehicle_type, i + 1, DictSet(weights, sts[i].id, w))
             ELSE WeightsFrom(sts, scenario, vehicle_type, i + 1, weights)

compute_station_weights(sts, scenario, vehicle_type) ==
    WeightsFrom(sts, scenario, vehicle_type, 1, <<>>)

\* [sid] * w
Repeat(sid, w) == [j \in 1..w |-> sid]

\* (a variant of Flatten that lists the stations in reverse dict order)
RECURSIVE FlattenReversed(_, _)
FlattenReversed(weights, i) ==
    IF i > Len(weights) THEN <<>>
    ELSE FlattenReversed(weights, i + 1) \o Repeat(weights[i].sid, weights[i].w)

\* weighted_station_ids: every station id, weight-many times, in dict order
RECURSIVE Flatten(_, _)
Flatten(weights, i) ==
    IF i > Len(weights) THEN <<>>
    ELSE Repeat(weights[i].sid, weights[i].w) \o Flatten(weights, i + 1)

\* station_lookup.get(sid): the last station row with that id
RECURSIVE LookupFrom(_, _, _)
LookupFrom(sts, sid, i) ==
    IF i = 0 THEN 0
    ELSE IF sts[i].id = sid THEN i ELSE LookupFrom(sts, sid, i - 1)

station_lookup(sts, sid) == sts[LookupFrom(sts, sid, Len(sts))]

\* (a variant of KnownTypes for a loop that also takes helicopters)
KnownTypesAndHelicopter == {"ambulance", "police", "fire", "helicopter"}

\* for vtype in ["ambulance", "police", "fire"]
KnownTypes == {"ambulance", "police", "fire"}

\* (a variant of IndexInType that counts only the rows not yet at a station)
IndexInTypeUnassigned(vs, i, vtype) ==
    Cardinality({j \in 1..(i - 1) : StripLower(vs[j].type) = vtype /\ vs[j].station_id = ""})

\* (a variant of IndexInType that counts the row itself)
IndexInTypeFromOne(vs, i, vtype) ==
    Cardinality({j \in 1..i : StripLower(vs[j].type) = vtype})

\* the index (from 0) of row i in vehicles_by_type[vtype]
IndexInType(vs, i, vtype) ==
    Cardinality({j \in 1..(i - 1) : StripLower(vs[j].type) = vtype})

\* the body of the assignment loop for one vehicle and its station (station
\* coordinates are whole degrees or no number: float() of the second is the
\* exception the loop swallows, after lat may already have been set)
Place(v, st, sid) ==
    LET v1 == IF FloatParses(st.lat) THEN [v EXCEPT !.lat = st.lat.val] ELSE v
        v2 == IF FloatParses(st.lat) /\ FloatParses(st.lon)
              THEN [v1 EXCEPT !.lon = st.lon.val] ELSE v1
    IN  [v2 EXCEPT !.station_id = sid]

\* (a variant of assign_vehicles_to_stations that returns at the first type,
\* in the order ambulance, police, fire, that has units and no station)
assign_until_unhoused(vs, sts, scenario) ==
    LET TypeOrder == <<"ambulance", "police", "fire">>
        Cycle(t) == Flatten(compute_station_weights(sts, scenario, t), 1)
        Unhoused(t) == Cycle(t) = <<>> /\ \E j \in DOMAIN vs : StripLower(vs[j].type) = t
        Returned(t) == \E k \in 1..3 :
                          /\ Unhoused(TypeOrder[k])
                          /\ \E m \in k..3 : TypeOrder[m] = t
    IN  [i \in 1..Len(vs) |->
            LET vtype == StripLower(vs[i].type)
            IN  IF vtype \notin KnownTypes \/ Returned(vtype)
                THEN vs[i]
                ELSE LET sid == Cycle(vtype)[(IndexInType(vs, i, vtype) % Len(Cycle(vtype))) + 1]
                     IN  Place(vs[i], station_lookup(sts, sid), sid)]

\* assign_vehicles_to_stations
assign_vehicles_to_stations(vs, sts, scenario) ==
    [i \in 1..Len(vs) |->
        LET vtype == StripLower(vs[i].type)
            cycle == Flatten(compute_station_weights(sts, scenario, vtype), 1)
        IN  IF vtype \notin KnownTypes \/ cycle = <<>>
            THEN vs[i]
            ELSE LET sid == cycle[(IndexInType(vs, i, vtype) % Len(cycle)) + 1]
                 IN  Place(vs[i], station_lookup(sts, sid), sid)]

\* main's normalisation of the loaded vehicles
NormalizeVehicle(v) ==
    LET st == StripLower(v.status)
    IN  [v EXCEPT !.type = StripLower(v.type),
                  !.status = IF st \notin {"available", "busy"} THEN "available" ELSE st]

\* the scenario ids given on the command line
ScenarioArgs == {NoneArg, "1", "9"}

\* main: load the three files, choose the scenario, normalise, assign, save.
HeuristicMain ==
    /\ csvVehicles # <<>>      \* updated_vehicles[0] raises on an empty fleet
    /\ factors # <<>>          \* max() raises on an empty factors file
    /\ \E scenario_id \in ScenarioArgs :
        LET chosen == choose_factor_scenario(factors, scenario_id)
            loaded == [i \in 1..Len(csvVehicles) |-> NormalizeVehicle(csvVehicles[i])]
        IN  /\ factor' = chosen
            /\ optimized' = assign_vehicles_to_stations(loaded, stations, chosen)
    /\ UNCHANGED <<vehicles, pc, req, best, resp, csvVehicles, stations, factors, ai, choice>>

\* choose_factor_scenario called on its own with the rows of factors.csv: it
\* returns a row, or max() raises ValueError on an empty list.
ChooseScenario ==
    /\ \E scenario_id \in ScenarioArgs :
        choice' = IF factors = <<>>
                  THEN [scenario_id |-> scenario_id, outcome |-> "ValueError",
                        scenario |-> NoFactor]
                  ELSE [scenario_id |-> scenario_id, outcome |-> "returned",
                        scenario |-> choose_factor_scenario(factors, scenario_id)]
    /\ UNCHANGED <<vehicles, pc, req, best, resp, csvVehicles, stations, factors, optimized,
                   factor, ai>>

-----------------------------------------------------------------------------
(* The AI-driven rebalancer: optimize_allocation_ai.py *)

max_retries == 5

\* One element of the JSON array the model answers with.  has_keys is FALSE
\* for an element without "id", "lat" or "lon" (the UPDATE raises and the
\* element is skipped); has_station is FALSE for one without "station_id".
Assignment(id, lat, lon, station_id, has_station) ==
    [id |-> id, lat |-> lat, lon |-> lon, station_id |-> station_id,
     has_station |-> has_station, has_keys |-> TRUE]
Malformed == [Assignment("V1", 0, 0, "", FALSE) EXCEPT !.has_keys = FALSE]

\* The arrays the upstream model may answer with.
AIAnswers ==
    { <<>>,
      << Malformed, Assignment("V0", 0, 1, "S1", TRUE),
         Assignment("V1", 1, 1, "S2", TRUE), Assignment("V2", 1, 1, "", FALSE) >> }

\* (a variant of UpdateRow that also releases the unit it moves)
UpdateRowAndRelease(db, a) ==
    [i \in DOMAIN db |->
        IF db[i].id = a.id
        THEN [db[i] EXCEPT !.lat = a.lat, !.lon = a.lon, !.status = "available",
                           !.station_id = IF a.has_station THEN a.station_id ELSE ""]
        ELSE db[i]]

\* UPDATE vehicles SET lat = ?, lon = ?, station_id = ? WHERE id = ?
UpdateRow(db, a) ==
    [i \in DOMAIN db |->
        IF db[i].id = a.id
        THEN [db[i] EXCEPT !.lat = a.lat, !.lon = a.lon,
                           !.station_id = IF a.has_station THEN a.station_id ELSE ""]
        ELSE db[i]]

\* update_db: one UPDATE per assignment, in order, committed together
RECURSIVE update_db_from(_, _, _)
update_db_from(db, assignments, i) ==
    IF i > Len(assignments) THEN db
    ELSE IF assignments[i].has_keys
         THEN update_db_from(UpdateRow(db, assignments[i]), assignments, i + 1)
         ELSE update_db_from(db, assignments, i + 1)

update_db(db, assignments) == update_db_from(db, assignments, 1)

\* __main__ up to the call: load the vehicles, stop if there are none
AIStart ==
    /\ ai.pc = "idle"
    /\ vehicles # <<>>
    /\ ai' = [pc |-> "calling", attempt |-> 0]
    /\ UNCHANGED <<vehicles, pc, req, best, resp, csvVehicles, stations, factors, optimized,
                   factor, choice>>

\* (a variant of RetryAgain for a loop that retries without a limit)
RetryForever(attempt) == TRUE

\* for attempt in range(max_retries): there is a next attempt
RetryAgain(attempt) == attempt + 1 < max_retries

\* what is left alone by a pass of the retry loop
AIFrame ==
    UNCHANGED <<pc, req, best, resp, csvVehicles, stations, factors, optimized, factor, choice>>

\* One pass of the retry loop of optimize_allocation, with what follows it
\* when the loop ends.  The call raises a rate-limit error ("429",
\* "ResourceExhausted", "Quota exceeded"): sleep and go to the next attempt;
\* the loop's else returns [] when there is none, and __main__ prints
\* "Optimization failed.".
AIRateLimited ==
    /\ ai.pc = "calling"
    /\ ai' = IF RetryAgain(ai.attempt)
             THEN [pc |-> "calling", attempt |-> ai.attempt + 1]
             ELSE [pc |-> "idle", attempt |-> 0]
    /\ UNCHANGED vehicles
    /\ AIFrame

\* The call raises any other error: return [].
AIError ==
    /\ ai.pc = "calling"
    /\ ai' = [pc |-> "idle", attempt |-> 0]
    /\ UNCHANGED vehicles
    /\ AIFrame

\* The call answers with a text json.loads rejects: return [].
AIUnparsable ==
    /\ ai.pc = "calling"
    /\ ai' = [pc |-> "idle", attempt |-> 0]
    /\ UNCHANGED vehicles
    /\ AIFrame

\* The call answers with a JSON array: a non-empty one is written by update_db.
AIAnswered ==
    /\ ai.pc = "calling"
    /\ \E new_assignments \in AIAnswers :
        /\ ai' = [pc |-> "idle", attempt |-> 0]
        /\ vehicles' = IF new_assignments # <<>>
                       THEN update_db(vehicles, new_assignments)
                       ELSE vehicles
    /\ AIFrame

AICall == AIRateLimited \/ AIError \/ AIUnparsable \/ AIAnswered

-----------------------------------------------------------------------------
(* The system *)

\* stations.csv and factors.csv
Station(id, region, lat, lon, ca, cp, cf) ==
    [id |-> id, region |-> region, lat |-> lat, lon |-> lon,
     capacity_ambulance |-> ca, capacity_police |-> cp, capacity_fire |-> cf]

\* The fleet files of the system: type, position and status patterns.
AllAmbulance == <<"ambulance", "Ambulance ">>
NoAmbulance == <<" Helicopter", " Police">>
Spread == << <<2, 1>>, <<0, 0>>, <<2, 0>> >>
Close == << <<1, 0>>, <<0, 0>>, <<2, 0>> >>
AllAvailable == <<"available">>
SomeBusy == <<"Busy ", "available", "Maintenance">>
StationIdPattern == <<"S1", " S1 ", "">>

SystemFleets ==
    { Fleet(MaxUnits, AllAmbulance, Close, SomeBusy, StationIdPattern),
      Fleet(MaxUnits, NoAmbulance, Spread, AllAvailable, StationIdPattern) }

SystemStations ==
    << Station("S1", " North", IntCell(0), IntCell(1), IntCell(1), IntCell(1), TxtCell),
       Station("S2", "south", IntCell(2), IntCell(1), IntCell(2), TxtCell, IntCell(1)) >>
SystemFactors ==
    << Factor("1", "SOUTH", DecCell(2)), Factor("2", "north", DecCell(1)) >>

NoChoice == [scenario_id |-> NoneArg, outcome |-> "not called", scenario |-> NoFactor]

Init ==
    /\ csvVehicles \in SystemFleets
    /\ vehicles = init_db(csvVehicles)
    /\ pc = [w \in Workers |-> "ready"]
    /\ req = [w \in Workers |-> NoRequest]
    /\ best = [w \in Workers |-> ""]
    /\ resp = [w \in Workers |-> NoResponse]
    /\ stations = SystemStations
    /\ factors = SystemFactors
    /\ optimized = <<>>
    /\ factor = NoFactor
    /\ choice = NoChoice
    /\ ai = [pc |-> "idle", attempt |-> 0]

Next ==
    \/ \E w \in Workers : RequestSelect(w)
    \/ \E w \in Workers : RequestCommit(w)
    \/ \E w \in Workers : RequestReturn(w)
    \/ reset_vehicles
    \/ HeuristicMain
    \/ AIStart
    \/ AICall

Spec == Init /\ [][Next]_vars

-----------------------------------------------------------------------------
(* The heuristic rebalancer on its own, over a wider range of input files *)

\* Largest fleet file, and largest station capacity, of the rebalancer's inputs.
MaxRebUnits == 9
MaxCap == 3

RebalanceFleets ==
    { Fleet(n, tp, Spread, sp, StationIdPattern) :
        n \in 1..MaxRebUnits,
        tp \in { AllAmbulance,
                 <<"Ambulance ", " Police", "ambulance", " Helicopter">>,
                 <<"FIRE", "ambulance">> },
        sp \in { AllAvailable, SomeBusy } }

\* capacity cells: -1 .. MaxCap, a decimal text ("2.5"), an empty cell
CapCells == { IntCell(c) : c \in -1..MaxCap } \cup { DecCell(5), TxtCell }

\* station files: two or three stations with distinct ids; the second one's
\* longitude cell may hold no number
RebalanceStations ==
    { << Station("S1", " North", IntCell(0), IntCell(1), ca1, IntCell(1), TxtCell),
         Station("S2", "south", IntCell(2), lon2, ca2, IntCell(0), IntCell(2)) >> \o extra :
        ca1 \in CapCells, ca2 \in CapCells, lon2 \in { IntCell(0), TxtCell },
        extra \in { <<>>,
                    << Station("S3", "NORTH", TxtCell, IntCell(0), IntCell(1), IntCell(2), IntCell(1)) >> } }

RebalanceFactors ==
    { << Factor("1", "north", DecCell(2)) >>,
      << Factor("1", " North", DecCell(1)), Factor("2", "SOUTH", DecCell(3)) >>,
      << Factor("2", "south", TxtCell), Factor("1", "north", DecCell(-3)), Factor("3", "east", IntCell(1)) >> }

InitRebalance ==
    /\ csvVehicles \in RebalanceFleets
    /\ stations \in RebalanceStations
    /\ factors \in RebalanceFactors
    /\ vehicles = init_db(csvVehicles)
    /\ pc = [w \in Workers |-> "ready"]
    /\ req = [w \in Workers |-> NoRequest]
    /\ best = [w \in Workers |-> ""]
    /\ resp = [w \in Workers |-> NoResponse]
    /\ optimized = <<>>
    /\ factor = NoFactor
    /\ choice = NoChoice
    /\ ai = [pc |-> "idle", attempt |-> 0]

NextRebalance == HeuristicMain

SpecRebalance == InitRebalance /\ [][NextRebalance]_vars

-----------------------------------------------------------------------------
(* choose_factor_scenario on its own, over factors files of every shape *)

\* Largest number of rows of a factors file.
MaxScenarios == 3

ScenarioIds == <<"1", "2", "3", "4">>

\* expected_call_volume cells: empty, "0", "1", "1.0", "1.5", "-0.5"
VolumeCells == { TxtCell, IntCell(0), IntCell(1), DecCell(2), DecCell(3), DecCell(-1) }

\* factors files of 0 .. MaxScenarios rows, ids "1", "2", ... in file order
ScenarioFactors ==
    { [i \in 1..n |-> Factor(ScenarioIds[i], "north", cells[i])] :
        n \in 0..MaxScenarios, cells \in [1..MaxScenarios -> VolumeCells] }

InitScenario ==
    /\ factors \in ScenarioFactors
    /\ csvVehicles = Fleet(1, AllAmbulance, Spread, AllAvailable, StationIdPattern)
    /\ stations = SystemStations
    /\ vehicles = init_db(csvVehicles)
    /\ pc = [w \in Workers |-> "ready"]
    /\ req = [w \in Workers |-> NoRequest]
    /\ best = [w \in Workers |-> ""]
    /\ resp = [w \in Workers |-> NoResponse]
    /\ optimized = <<>>
    /\ factor = NoFactor
    /\ choice = NoChoice
    /\ ai = [pc |-> "idle", attempt |-> 0]

NextScenario == ChooseScenario

SpecScenario == InitScenario /\ [][NextScenario]_vars

-----------------------------------------------------------------------------
(* Properties of the dispatch endpoint *)

\* the steps of a request handler, as seen in a pair of states
SelectStep(w) ==
    /\ pc[w] = "ready"
    /\ \/ pc'[w] = "selected"
       \/ req'[w] # req[w]
       \/ resp'[w] # resp[w]
CommitStep(w) == pc[w] = "selected" /\ pc'[w] = "committed"
ReturnStep(w) == pc[w] = "committed" /\ pc'[w] = "ready"

\* the location of a request is a pair of numbers
WellFormed(loc) == Len(loc) = 2 /\ FloatOK(loc[1]) /\ FloatOK(loc[2])

IsAvailable(db, id) == \E i \in DOMAIN db : db[i].id = id /\ db[i].status = "available"
Available(db, type) ==
    { i \in DOMAIN db : db[i].type = type /\ db[i].status = "available" }
DistTo(r, row) == distance_km(r.loc[1].val, r.loc[2].val, row.lat, row.lon)

\* the fields of a row other than its status
Fixed(row) == <<row.id, row.type, row.lat, row.lon, row.station_id>>

InvalidRequestErrors == {"Invalid location", "Location must be numeric [lat, lon]"}

\* C1: at most one assignment: whenever a request reserves and returns a
\* unit, that unit is available in the registry at that instant (so no unit
\* is returned by two successful calls with no reset in between).
C1_ReservedUnitIsAvailable ==
    [][\A w \in Workers : CommitStep(w) => IsAvailable(vehicles, best[w])]_vars

\* C2: the loser re-selects: a request whose selected unit has been taken
\* by the time it reserves, while another unit of the type is available,
\* reserves (and goes on to return) a unit that was still available.
C2_LoserReselects ==
    [][\A w \in Workers :
        (/\ CommitStep(w)
         /\ ~IsAvailable(vehicles, best[w])
         /\ Available(vehicles, req[w].type) # {})
        => \E i \in Available(vehicles, req[w].type) :
                /\ best'[w] = vehicles[i].id
                /\ vehicles'[i].status = "busy"]_vars

\* C3: the unit a request selects has the requested type, is available when
\* the candidates are read, and is the first in table order among the
\* available units of that type at the least distance; a well-formed request
\* with an available unit of its type always selects one, and the unit
\* selected is the unit returned.
C3_ClosestFirstInListing ==
    [][\A w \in Workers :
        /\ (SelectStep(w) /\ WellFormed(req'[w].loc) /\ Available(vehicles, req'[w].type) # {})
           => pc'[w] = "selected"
        /\ (SelectStep(w) /\ pc'[w] = "selected")
           => \E i \in Available(vehicles, req'[w].type) :
                /\ best'[w] = vehicles[i].id
                /\ \A j \in Available(vehicles, req'[w].type) :
                     \/ DistTo(req'[w], vehicles[i]) < DistTo(req'[w], vehicles[j])
                     \/ /\ DistTo(req'[w], vehicles[i]) = DistTo(req'[w], vehicles[j])
                        /\ i <= j
        /\ CommitStep(w) => best'[w] = best[w]
        /\ ReturnStep(w) => resp'[w].code = 200 /\ resp'[w].unit = best[w]]_vars

\* C3's case: a request has selected the first of two available units of its
\* type at the same distance, while a closer unit is busy.
C3_Witness ==
    \E w \in Workers :
        /\ pc[w] = "selected"
        /\ \E i, j, k \in DOMAIN vehicles :
            /\ i < j
            /\ best[w] = vehicles[i].id
            /\ j \in Available(vehicles, req[w].type)
            /\ DistTo(req[w], vehicles[i]) = DistTo(req[w], vehicles[j])
            /\ vehicles[k].status = "busy"
            /\ DistTo(req[w], vehicles[k]) < DistTo(req[w], vehicles[i])

\* C4: a successful request leaves the returned unit busy, changes the status
\* of exactly one unit, and changes nothing else in the registry.
C4_ExactlyOneStatusChanged ==
    [][\A w \in Workers : CommitStep(w) =>
        /\ Len(vehicles') = Len(vehicles)
        /\ \E i \in DOMAIN vehicles :
            /\ vehicles[i].id = best[w]
            /\ get_vehicles(vehicles')[i].status = "busy"
            /\ vehicles[i].status # vehicles'[i].status
            /\ \A j \in DOMAIN vehicles \ {i} : vehicles'[j].status = vehicles[j].status
        /\ \A j \in DOMAIN vehicles : Fixed(vehicles'[j]) = Fixed(vehicles[j])]_vars

\* C5: a well-formed request for one of the three types, made while no unit
\* of that type is available, is answered "No available unit" at once and
\* leaves the registry as it was.
C5_NoAvailableUnit ==
    [][\A w \in Workers :
        (/\ SelectStep(w)
         /\ WellFormed(req'[w].loc)
         /\ req'[w].type \in KnownTypes
         /\ Available(vehicles, req'[w].type) = {})
        => /\ resp'[w] = Response(400, "No available unit", "")
           /\ pc'[w] = "ready"
           /\ vehicles' = vehicles]_vars

\* C5's case: a request for ambulances was refused while the fleet has
\* ambulances, all of them busy.
C5_Witness ==
    \E w \in Workers :
        /\ pc[w] = "ready"
        /\ req[w].type = "ambulance"
        /\ resp[w].error = "No available unit"
        /\ \E i \in DOMAIN vehicles : vehicles[i].type = "ambulance"
        /\ Available(vehicles, "ambulance") = {}

\* C6: a request whose type is not ambulance, police or fire, or whose
\* location is no pair of numbers, is refused as an invalid request (not as
\* "No available unit"), reserves nothing and leaves the registry unchanged.
C6_InvalidRequestRejected ==
    [][\A w \in Workers :
        (SelectStep(w) /\ (req'[w].type \notin KnownTypes \/ ~WellFormed(req'[w].loc)))
        => /\ resp'[w].code = 400
           /\ resp'[w].error \in InvalidRequestErrors
           /\ pc'[w] = "ready"
           /\ vehicles' = vehicles]_vars

\* C7: a reset leaves every unit available, whatever the statuses were, and
\* changes no unit's id, type, position or station_id, nor the number of units.
C7_ResetMakesAllAvailable ==
    [][reset_vehicles =>
        /\ Len(vehicles') = Len(vehicles)
        /\ \A i \in DOMAIN vehicles :
            /\ vehicles'[i].status = "available"
            /\ Fixed(vehicles'[i]) = Fixed(vehicles[i])]_vars

\* C7's case: a unit that a request reserved and returned is available
\* again, as is every other unit.
C7_Witness ==
    /\ \E w \in Workers : pc[w] = "ready" /\ resp[w].code = 200
    /\ \A w \in Workers : pc[w] = "ready"
    /\ \A i \in DOMAIN vehicles : vehicles[i].status = "available"

\* C14: a reset never releases a unit whose reservation is in flight: the
\* unit a request returns is busy in the table at the moment the response is
\* returned, whatever resets ran since the request selected or reserved it.
C14_ReturnedUnitIsBusy ==
    [][\A w \in Workers :
        ReturnStep(w) =>
            \E i \in DOMAIN vehicles :
                vehicles'[i].id = resp'[w].unit /\ vehicles'[i].status = "busy"]_vars

-----------------------------------------------------------------------------
(* Properties of the status discipline and of the rebalancers *)

\* the steps of the two rebalancers, as seen in a pair of states
AIStep == ai' # ai
HeuristicStep == optimized' # optimized

Position(row) == <<row.lat, row.lon, row.station_id>>

\* C8: over every step of the system, a unit turns from available to busy
\* only in the step in which a request reserves that unit, and from busy to
\* available only in a reset; the steps of the AI-driven rebalancer change no
\* status and keep the table's units; the heuristic rebalancer does not touch
\* the table and writes one row per unit of the fleet file, same id and type,
\* with the status the unit has.
C8_StatusDiscipline ==
    [][/\ Len(vehicles') = Len(vehicles)
       /\ \A i \in DOMAIN vehicles :
            /\ vehicles'[i].id = vehicles[i].id
            /\ vehicles'[i].type = vehicles[i].type
            /\ (vehicles[i].status = "available" /\ vehicles'[i].status = "busy")
               => \E w \in Workers : CommitStep(w) /\ best[w] = vehicles[i].id
            /\ (vehicles[i].status = "busy" /\ vehicles'[i].status = "available")
               => reset_vehicles
       /\ AIStep => \A i \in DOMAIN vehicles : vehicles'[i].status = vehicles[i].status
       /\ HeuristicStep =>
            /\ vehicles' = vehicles
            /\ Len(optimized') = Len(csvVehicles)
            /\ \A i \in DOMAIN csvVehicles :
                /\ optimized'[i].id = csvVehicles[i].id
                /\ optimized'[i].type = init_db(csvVehicles)[i].type
                /\ optimized'[i].status = init_db(csvVehicles)[i].status]_vars

\* C8's case: a unit reserved by a request is busy and stands where the AI
\* rebalancer put it, and the heuristic rebalancer has run.
C8_Witness ==
    /\ optimized # <<>>
    /\ ai.pc = "idle"
    /\ \E w \in Workers, i \in DOMAIN vehicles :
        /\ resp[w].code = 200
        /\ resp[w].unit = vehicles[i].id
        /\ vehicles[i].status = "busy"
        /\ vehicles[i].station_id = "S2"

\* C9: no rebalance changes the position or station_id of a busy unit: not
\* the AI-driven one in the table, not the heuristic one in its output.
C9_BusyUnitsNotRepositioned ==
    [][/\ AIStep => \A i \in DOMAIN vehicles :
            vehicles[i].status = "busy" => Position(vehicles'[i]) = Position(vehicles[i])
       /\ HeuristicStep => \A i \in DOMAIN csvVehicles :
            init_db(csvVehicles)[i].status = "busy"
            => Position(optimized'[i]) = Position(csvVehicles[i])]_vars

\* C19: a run of the AI-driven rebalancer makes at most max_retries calls
\* (attempts 0 .. max_retries - 1); it makes a further call only after a
\* rate-limit error; every pass of its loop either ends the run or moves to
\* the next attempt, so the run ends; a run that fails (another error, the
\* last attempt rate-limited, an answer that cannot be parsed) ends normally
\* and leaves the vehicles table as it was.
C19_BoundedRetriesNoChangeOnFailure ==
    [][/\ ai'.attempt < max_retries
       /\ (AIStep /\ ai.pc = "calling") =>
            \/ ai'.pc = "idle"
            \/ /\ AIRateLimited
               /\ ai'.pc = "calling"
               /\ ai'.attempt = ai.attempt + 1
       /\ (AIError \/ AIUnparsable \/ (AIRateLimited /\ ai.attempt = max_retries - 1)) =>
            /\ ai'.pc = "idle"
            /\ vehicles' = vehicles
       /\ AIRateLimited => vehicles' = vehicles]_vars

\* C19's case: the fifth call of a run is about to be made, after four
\* rate-limit errors, on a table an earlier run has changed.
C19_Witness ==
    /\ ai.pc = "calling"
    /\ ai.attempt = max_retries - 1
    /\ \E i \in DOMAIN vehicles : vehicles[i].station_id = "S2"

\* the rows of a fleet with a given (normalised) type, and a row's place among them
TypeRows(vs, t) == { i \in DOMAIN vs : StripLower(vs[i].type) = t }
RankInType(vs, i) ==
    Cardinality({ j \in TypeRows(vs, StripLower(vs[i].type)) : j < i })

\* the weights of the first j stations for a type, summed
RECURSIVE PrefixWeight(_, _)
PrefixWeight(t, j) ==
    IF j = 0 THEN 0 ELSE PrefixWeight(t, j - 1) + StationWeight(stations[j], factor, t)
TotalWeight(t) == PrefixWeight(t, Len(stations))

\* the station at place p (from 0) of the cycle list of a type: every station
\* weight-many times, in the order of the station file
CycleStation(t, p) ==
    stations[CHOOSE j \in DOMAIN stations : PrefixWeight(t, j - 1) <= p /\ p < PrefixWeight(t, j)]

AssignedTo(t, sid) == { i \in TypeRows(csvVehicles, t) : optimized[i].station_id = sid }

\* what C10 says of the units' station ids and of the stations' shares
RoundRobinStations ==
    \A t \in KnownTypes : TotalWeight(t) > 0 =>
        /\ \A i \in TypeRows(csvVehicles, t) :
            optimized[i].station_id =
                CycleStation(t, RankInType(csvVehicles, i) % TotalWeight(t)).id
        /\ Cardinality(TypeRows(csvVehicles, t)) % TotalWeight(t) = 0 =>
            \A j \in DOMAIN stations :
                Cardinality(AssignedTo(t, stations[j].id)) =
                    (Cardinality(TypeRows(csvVehicles, t)) \div TotalWeight(t))
                        * StationWeight(stations[j], factor, t)

Rerun ==
    assign_vehicles_to_stations(
        [i \in 1..Len(optimized) |-> NormalizeVehicle(optimized[i])], stations, factor)

\* C11: the rebalance is idempotent: run again with the same scenario and
\* stations on the fleet the first run wrote, it gives every unit the same
\* position and station_id as the first run did.
C11_RebalanceIdempotent ==
    optimized # <<>> =>
        /\ Len(Rerun) = Len(optimized)
        /\ \A i \in DOMAIN optimized : Position(Rerun[i]) = Position(optimized[i])

\* C11's case: the first run moved units, two units of one type to two
\* different stations, one of them to a station whose longitude is no number.
C11_Witness ==
    /\ optimized # <<>>
    /\ \E i, j \in DOMAIN optimized :
        /\ optimized[i].type = optimized[j].type
        /\ optimized[i].station_id # optimized[j].station_id
        /\ Position(optimized[i]) # Position(csvVehicles[i])
        /\ Position(optimized[j]) # Position(csvVehicles[j])
        /\ \E k \in DOMAIN stations :
            /\ stations[k].id = optimized[j].station_id
            /\ ~FloatParses(stations[k].lon)

\* the fleet main loads, and a fleet without the rows of one type
Loaded == [i \in 1..Len(csvVehicles) |-> NormalizeVehicle(csvVehicles[i])]
Without(vs, t) == SelectSeq(vs, LAMBDA v : StripLower(v.type) # t)

\* C13: a type for which no station has positive weight is skipped: its
\* units keep position and station_id, and the units of the other types are
\* assigned as they are when the fleet has no unit of that type.
C13_UnhousedTypeSkipped ==
    optimized # <<>> =>
        \A t \in KnownTypes : TotalWeight(t) = 0 =>
            /\ \A i \in TypeRows(csvVehicles, t) :
                Position(optimized[i]) = Position(csvVehicles[i])
            /\ Without(optimized, t) =
                   assign_vehicles_to_stations(Without(Loaded, t), stations, factor)

\* C13's case: the fleet has ambulances and no station takes ambulances,
\* while a police unit was moved to its station.
C13_Witness ==
    /\ optimized # <<>>
    /\ TotalWeight("ambulance") = 0
    /\ TypeRows(csvVehicles, "ambulance") # {}
    /\ \E i \in TypeRows(csvVehicles, "police") :
        /\ Position(optimized[i]) # Position(csvVehicles[i])
        /\ optimized[i].station_id = "S1"

\* a station's capacity cell for a type, and whether it is a positive integer
CapCell(s, t) ==
    CASE t = "ambulance" -> s.capacity_ambulance
      [] t = "police" -> s.capacity_police
      [] t = "fire" -> s.capacity_fire
PositiveCapacity(s, t) == CapCell(s, t).kind = "int" /\ CapCell(s, t).val > 0

\* the stations a repositioned unit of type t may name: positive capacity
\* and positive weight for t
Housing(t) ==
    { j \in DOMAIN stations :
        PositiveCapacity(stations[j], t) /\ StationWeight(stations[j], factor, t) > 0 }

VolumeOf(row) ==
    LET c == row.expected_call_volume
    IN  IF c.kind = "int" THEN 2 * c.val ELSE IF c.kind = "dec" THEN c.val ELSE 0

\* w is the integer nearest to h / 2, the even one of the two when h is odd
NearestInteger(h, w) == (2 * w - h) \in {-1, 0, 1} /\ (h % 2 = 1 => w % 2 = 0)

\* C16: for a station with positive capacity c for a type and a scenario
\* with a volume v >= 0 (an empty or unparsable volume being 0), the weight is
\* c when the station's region differs from the scenario's, and c * (1 + v)
\* rounded to the nearest integer when the regions are equal after trimming
\* and lower-casing.
C16_StationWeight ==
    \A j \in DOMAIN stations, k \in DOMAIN factors, t \in KnownTypes :
        (PositiveCapacity(stations[j], t) /\ VolumeOf(factors[k]) >= 0) =>
            LET c == CapCell(stations[j], t).val
                w == StationWeight(stations[j], factors[k], t)
            IN  IF StripLower(stations[j].region) = StripLower(factors[k].region)
                THEN NearestInteger(c * (2 + VolumeOf(factors[k])), w)
                ELSE w = c

\* C16's case: a run whose scenario has volume 1.0 in region "north" gave the
\* station of region " North" with ambulance capacity 3 the weight 6, and the
\* station of region "south" with capacity 2 the weight 2.
C16_Witness ==
    /\ optimized # <<>>
    /\ factor.region = "north" /\ factor.expected_call_volume = DecCell(2)
    /\ stations[1].region = " North" /\ stations[1].capacity_ambulance = IntCell(3)
    /\ stations[2].region = "south" /\ stations[2].capacity_ambulance = IntCell(2)
    /\ StationWeight(stations[1], factor, "ambulance") = 6
    /\ StationWeight(stations[2], factor, "ambulance") = 2
    /\ Cardinality(AssignedTo("ambulance", stations[1].id)) = 6

\* the number of units of type t that the run sent to station j
Share(t, j) == Cardinality(AssignedTo(t, stations[j].id))

\* C17 as stated: for every number of units of a type and every two stations
\* with weights w1 > w2 > 0, the station with w1 receives at least as many
\* units as the station with w2.
C17_HeavierStationGetsMore ==
    optimized # <<>> =>
        \A t \in KnownTypes : \A j1, j2 \in DOMAIN stations :
            (/\ StationWeight(stations[j1], factor, t) > StationWeight(stations[j2], factor, t)
             /\ StationWeight(stations[j2], factor, t) > 0)
            => Share(t, j1) >= Share(t, j2)

\* C17, amended: the station with w1 receives at least as many units as the
\* station with w2 when it comes before it in the station file, or when the
\* number of units is a multiple of the cycle length.
C17_HeavierStationGetsMoreWhenFirst ==
    optimized # <<>> =>
        \A t \in KnownTypes : \A j1, j2 \in DOMAIN stations :
            (/\ StationWeight(stations[j1], factor, t) > StationWeight(stations[j2], factor, t)
             /\ StationWeight(stations[j2], factor, t) > 0
             /\ \/ j1 < j2
                \/ Cardinality(TypeRows(csvVehicles, t)) % TotalWeight(t) = 0)
            => Share(t, j1) >= Share(t, j2)

\* C17's case: seven ambulances and two stations of weights 3 and 2, in
\* that order: the cycle has five places and the stations receive 5 and 2.
C17_Witness ==
    /\ optimized # <<>>
    /\ Len(stations) = 2
    /\ Cardinality(TypeRows(csvVehicles, "ambulance")) = 7
    /\ StationWeight(stations[1], factor, "ambulance") = 3
    /\ StationWeight(stations[2], factor, "ambulance") = 2
    /\ Share("ambulance", 1) = 5
    /\ Share("ambulance", 2) = 2

\* C20: the heuristic rebalancer returns the units it was given (the fleet as
\* main loaded it), in the same order with the same ids and types, and leaves
\* every unit whose type is not ambulance, police or fire as it was: same
\* lat, lon, station_id and status.
C20_OtherTypesUntouched ==
    optimized # <<>> =>
        /\ Len(optimized) = Len(csvVehicles)
        /\ \A i \in DOMAIN csvVehicles :
            /\ optimized[i].id = csvVehicles[i].id
            /\ optimized[i].type = StripLower(csvVehicles[i].type)
            /\ StripLower(csvVehicles[i].type) \notin {"ambulance", "police", "fire"}
               => /\ Position(optimized[i]) = Position(csvVehicles[i])
                  /\ optimized[i].status = Loaded[i].status

\* C20's case: the fleet has a helicopter, which stands where it stood, and
\* an ambulance and a police unit, which were moved.
C20_Witness ==
    /\ optimized # <<>>
    /\ \E i, j, k \in DOMAIN optimized :
        /\ optimized[i].type = "helicopter"
        /\ Position(optimized[i]) = Position(csvVehicles[i])
        /\ optimized[j].type = "ambulance"
        /\ Position(optimized[j]) # Position(csvVehicles[j])
        /\ optimized[k].type = "police"
        /\ Position(optimized[k]) # Position(csvVehicles[k])

-----------------------------------------------------------------------------
(* Properties of the scenario choice *)

ExplicitId == choice.outcome # "not called" /\ choice.scenario_id # NoneArg

\* C12: a scenario choice with an explicit id returns the scenario with that
\* id, and fails (returns no scenario) when no scenario has that id.
C12_ExplicitIdMatchesOrFails ==
    ExplicitId =>
        IF \E i \in DOMAIN factors : factors[i].id = choice.scenario_id
        THEN choice.outcome = "returned" /\ choice.scenario.id = choice.scenario_id
        ELSE choice.outcome # "returned"

\* C18: a scenario choice without an explicit id returns a scenario of the
\* largest expected_call_volume (an empty or unparsable volume counting as
\* 0), the first such scenario of the list.
C18_MaxVolumeFirstOnTies ==
    (choice.outcome = "returned" /\ choice.scenario_id = NoneArg) =>
        \E i \in DOMAIN factors :
            /\ choice.scenario = factors[i]
            /\ \A j \in DOMAIN factors :
                \/ VolumeOf(factors[j]) < VolumeOf(factors[i])
                \/ VolumeOf(factors[j]) = VolumeOf(factors[i]) /\ i <= j

\* C18's case: of three scenarios the second ("1") and the third ("1.0") share
\* the largest volume, the first has none, and the second was returned.
C18_Witness ==
    /\ choice.outcome = "returned"
    /\ choice.scenario_id = NoneArg
    /\ Len(factors) = 3
    /\ factors[1].expected_call_volume = TxtCell
    /\ factors[2].expected_call_volume = IntCell(1)
    /\ factors[3].expected_call_volume = DecCell(2)
    /\ choice.scenario = factors[2]

====
